---- MODULE Spec2Model ----
(***************************************************************************)
(* Model of the SPA agent's generation / validation / retry pipeline:      *)
(* agent/validator.py, agent/code_generator.py, agent/idea_generator.py    *)
(* and the orchestrator of agent/main.py.                                  *)
(*                                                                         *)
(* Text is modelled as a sequence of units.  A unit [s |-> text, n |-> k]  *)
(* is the text s repeated k times.  Markup units start with "<", end with  *)
(* ">" and have no other "<" or ">", so a pattern of the validator, which  *)
(* starts with "<" and has ">" at most as its last character, occurs in a  *)
(* text exactly when it occurs inside one unit.  FENCE stands for the      *)
(* three backquotes of a code fence, and \u00e9 is written as in a Python   *)
(* literal: one character, two bytes.                                      *)
(***************************************************************************)
EXTENDS Integers, Sequences, FiniteSets, TLC

(***************************************************************************)
(* Bounds of the model.                                                    *)
(***************************************************************************)
MaxMissing == 2
MaxTags == 1

(***************************************************************************)
(* Text units.                                                             *)
(***************************************************************************)
Tk(s) == [s |-> s, n |-> 1]
Fill(k) == [s |-> "x", n |-> k]

\* len(s.encode("utf-8")) of one unit text
Utf8Bytes(s) ==
    CASE s = "<!DOCTYPE html>" -> 15
      [] s = "<!doctype html>" -> 15
      [] s = "<html lang=\"en\">" -> 16
      [] s = "<head>" -> 6
      [] s = "<title>" -> 7
      [] s = "<TITLE>" -> 7
      [] s = "<title lang=\"en\">" -> 17
      [] s = "</title>" -> 8
      [] s = "</TITLE>" -> 8
      [] s = "</head>" -> 7
      [] s = "<body>" -> 6
      [] s = "</body>" -> 7
      [] s = "</BODY>" -> 7
      [] s = "</html>" -> 7
      [] s = "<style>" -> 7
      [] s = "</style>" -> 8
      [] s = "<script>" -> 8
      [] s = "</script>" -> 9
      [] s = "<script src=\"https://cdn.example.com/a.js\">" -> 43
      [] s = "<link rel=\"stylesheet\" href=\"https://cdn.example.com/a.css\">" -> 60
      [] s = "@import url(\"https://cdn.example.com/a.css\");" -> 45
      [] s = "App" -> 3
      [] s = "Caf\\u00e9" -> 5
      [] s = "caf\\u00e9" -> 5
      [] s = "app" -> 3
      [] s = " " -> 1
      [] s = "\n" -> 1
      [] s = "x" -> 1
      [] s = "FENCE html\n" -> 8
      [] s = "FENCE htm\n" -> 7
      [] s = "FENCE\n" -> 4
      [] s = "FENCE" -> 3
      [] s = "Here is the app:" -> 16
      [] s = "here is the app:" -> 16
      [] OTHER -> 0

\* len(s) of one unit text: "\u00e9" is one character and two bytes
StrLen(s) == IF s \in {"Caf\\u00e9", "caf\\u00e9"} THEN 4 ELSE Utf8Bytes(s)

\* str.lower() of one unit text
LowerText(s) ==
    CASE s = "<!DOCTYPE html>" -> "<!doctype html>"
      [] s = "<TITLE>" -> "<title>"
      [] s = "</TITLE>" -> "</title>"
      [] s = "</BODY>" -> "</body>"
      [] s = "App" -> "app"
      [] s = "Caf\\u00e9" -> "caf\\u00e9"
      [] s = "Here is the app:" -> "here is the app:"
      [] OTHER -> s

\* str.isspace() of one unit text
IsSpace(s) == s \in {" ", "\n"}

\* the plain substrings and regular expressions of validator.py that occur
\* in the (lowercased) unit text s
PatternsIn(s) ==
    CASE s = "<!doctype html>" -> {"<!doctype html>"}
      [] s = "<html lang=\"en\">" -> {"<html"}
      [] s = "<head>" -> {"<head"}
      [] s = "<title>" -> {"<title", "<title>"}
      [] s = "<title lang=\"en\">" -> {"<title"}
      [] s = "</title>" -> {"</title>"}
      [] s = "</head>" -> {"</head>"}
      [] s = "<body>" -> {"<body"}
      [] s = "</body>" -> {"</body>"}
      [] s = "</html>" -> {"</html>"}
      [] s = "<style>" -> {"<style[\\s>]"}
      [] s = "</style>" -> {"</style>"}
      [] s = "<script>" -> {"<script[\\s>]"}
      [] s = "</script>" -> {"</script>"}
      [] s = "<script src=\"https://cdn.example.com/a.js\">" ->
             {"<script[\\s>]", "src=[\"']https?://"}
      [] s = "<link rel=\"stylesheet\" href=\"https://cdn.example.com/a.css\">" ->
             {"href=[\"']https?://[^\"']*\\.css"}
      [] s = "@import url(\"https://cdn.example.com/a.css\");" ->
             {"@import\\s+url\\([\"']?https?://"}
      [] OTHER -> {}

\* html.lower()
Lower(html) == [i \in DOMAIN html |-> [s |-> LowerText(html[i].s), n |-> html[i].n]]

\* sum(numbers)
RECURSIVE Sum(_)
Sum(numbers) == IF numbers = <<>> THEN 0 ELSE Head(numbers) + Sum(Tail(numbers))

\* len(html.encode("utf-8"))
Utf8Len(html) == Sum([i \in DOMAIN html |-> Utf8Bytes(html[i].s) * html[i].n])

\* len(html)
CharLen(html) == Sum([i \in DOMAIN html |-> StrLen(html[i].s) * html[i].n])

\* p in text
Contains(text, p) == \E i \in DOMAIN text : text[i].n > 0 /\ p \in PatternsIn(text[i].s)

\* len(re.findall(p, text))
CountMatches(text, p) ==
    Sum([i \in DOMAIN text |-> IF p \in PatternsIn(text[i].s) THEN text[i].n ELSE 0])

\* not text.strip()
IsBlank(text) == \A i \in DOMAIN text : text[i].n = 0 \/ IsSpace(text[i].s)

(***************************************************************************)
(* agent/validator.py                                                      *)
(***************************************************************************)
REQUIRED_ELEMENTS == <<"<!doctype html>", "<html", "<head", "<title", "<body">>
MAX_FILE_SIZE == 500000
MIN_FILE_SIZE == 200
EXTERNAL_PATTERNS ==
    <<"src=[\"']https?://", "href=[\"']https?://[^\"']*\\.css",
      "@import\\s+url\\([\"']?https?://">>
CLOSING_TAGS == <<"</html>", "</head>", "</body>">>
BLOCK_TAGS == <<"script", "style">>

\* rf"<{tag}[\s>]" and rf"</{tag}>"
OpenPattern(tag) == IF tag = "script" THEN "<script[\\s>]" ELSE "<style[\\s>]"
ClosePattern(tag) == IF tag = "script" THEN "</script>" ELSE "</style>"

\* one entry of the list errors: the message, the element or tag it names
\* and the two numbers it prints
Err(msg, arg, a, b) == [msg |-> msg, arg |-> arg, a |-> a, b |-> b]

Range(f) == {f[i] : i \in DOMAIN f}

Min(S) == CHOOSE x \in S : \A y \in S : x <= y
Max(S) == CHOOSE x \in S : \A y \in S : x >= y

\* re.search(r"<title>(.*?)</title>", html, re.IGNORECASE | re.DOTALL):
\* the leftmost <title> that some </title> follows, up to the first </title>
\* after it; found is the truth of the match object, group the capture
TitleMatch(html) ==
    LET low == Lower(html)
        closes(i) == {j \in DOMAIN low : j > i /\ "</title>" \in PatternsIn(low[j].s)}
        starts == {i \in DOMAIN low : "<title>" \in PatternsIn(low[i].s) /\ closes(i) # {}}
    IN IF starts = {}
       THEN [found |-> FALSE, group |-> <<>>]
       ELSE LET i == Min(starts)
                j == Min(closes(i))
            IN [found |-> TRUE, group |-> SubSeq(html, i + 1, j - 1)]

SizeErrors(size) ==
    (IF size < MIN_FILE_SIZE THEN <<Err("File too small", "", size, MIN_FILE_SIZE)>> ELSE <<>>)
    \o (IF size > MAX_FILE_SIZE THEN <<Err("File too large", "", size, MAX_FILE_SIZE)>> ELSE <<>>)

\* for p in pats: if p not in text: errors.append(msg: p)
MissingErrors(text, pats, msg) ==
    LET miss == SelectSeq(pats, LAMBDA p : ~Contains(text, p))
    IN [i \in DOMAIN miss |-> Err(msg, miss[i], 0, 0)]

TitleErrors(html) ==
    LET m == TitleMatch(html)
    IN IF m.found
       THEN (IF IsBlank(m.group) THEN <<Err("Empty <title> element", "", 0, 0)>> ELSE <<>>)
       ELSE <<Err("No <title> element found", "", 0, 0)>>

\* for pattern in EXTERNAL_PATTERNS: logger.warning(...): the patterns logged
ExternalWarnings(html) == SelectSeq(EXTERNAL_PATTERNS, LAMBDA p : Contains(Lower(html), p))

TagErrors(text, tag) ==
    LET open_count == CountMatches(text, OpenPattern(tag))
        close_count == CountMatches(text, ClosePattern(tag))
    IN IF open_count # close_count
       THEN <<Err("Mismatched tags", tag, open_count, close_count)>>
       ELSE <<>>

\* validate_html that returns at the first violated rule
validate_html_first_only(html) ==
    LET html_lower == Lower(html)
        size == Utf8Len(html)
        errors == SizeErrors(size)
                  \o MissingErrors(html_lower, REQUIRED_ELEMENTS, "Missing required element")
                  \o MissingErrors(html_lower, CLOSING_TAGS, "Missing closing tag")
                  \o TitleErrors(html)
                  \o TagErrors(html_lower, BLOCK_TAGS[1])
                  \o TagErrors(html_lower, BLOCK_TAGS[2])
        first == IF errors = <<>> THEN <<>> ELSE <<Head(errors)>>
    IN [is_valid |-> Len(first) = 0, errors |-> first, warnings |-> ExternalWarnings(html)]

\* validate_html that appends an error for every external pattern detected
validate_html_external_rejects(html) ==
    LET html_lower == Lower(html)
        size == Utf8Len(html)
        warned == ExternalWarnings(html)
        errors == SizeErrors(size)
                  \o MissingErrors(html_lower, REQUIRED_ELEMENTS, "Missing required element")
                  \o MissingErrors(html_lower, CLOSING_TAGS, "Missing closing tag")
                  \o TitleErrors(html)
                  \o [i \in DOMAIN warned |-> Err("External dependency detected", warned[i], 0, 0)]
                  \o TagErrors(html_lower, BLOCK_TAGS[1])
                  \o TagErrors(html_lower, BLOCK_TAGS[2])
    IN [is_valid |-> Len(errors) = 0, errors |-> errors, warnings |-> warned]

\* validate_html(html) -> (is_valid, errors); warnings are the external
\* patterns it logs
validate_html(html) ==
    LET html_lower == Lower(html)
        size == Utf8Len(html)
        errors == SizeErrors(size)
                  \o MissingErrors(html_lower, REQUIRED_ELEMENTS, "Missing required element")
                  \o MissingErrors(html_lower, CLOSING_TAGS, "Missing closing tag")
                  \o TitleErrors(html)
                  \o TagErrors(html_lower, BLOCK_TAGS[1])
                  \o TagErrors(html_lower, BLOCK_TAGS[2])
    IN [is_valid |-> Len(errors) = 0, errors |-> errors, warnings |-> ExternalWarnings(html)]

(***************************************************************************)
(* The documents the validator is checked on: an HTML skeleton with up to  *)
(* MaxMissing of its parts left out, one of the title variants, up to      *)
(* MaxTags opening and closing script tags, style tags that are absent,    *)
(* paired or unpaired, optional external references, and filler text that  *)
(* brings the size to a boundary.                                          *)
(***************************************************************************)
Rep(u, k) == [i \in 1..k |-> u]
Opt(b, u) == IF b THEN <<u>> ELSE <<>>

Parts == {"<!DOCTYPE html>", "<html lang=\"en\">", "<head>", "</head>", "<body>",
          "</body>", "</html>"}

TitleVariants == {"none", "plain", "wide", "blank", "attr", "upper", "unclosed", "two"}

TitleText(tv) ==
    CASE tv = "plain" -> <<Tk("<title>"), Tk("App"), Tk("</title>")>>
      [] tv = "wide" -> <<Tk("<title>"), Tk("Caf\\u00e9"), Tk("</title>")>>
      [] tv = "blank" -> <<Tk("<title>"), Tk(" "), Tk("\n"), Tk("</title>")>>
      [] tv = "attr" -> <<Tk("<title lang=\"en\">"), Tk("App"), Tk("</title>")>>
      [] tv = "upper" -> <<Tk("<TITLE>"), Tk("App"), Tk("</TITLE>")>>
      [] tv = "unclosed" -> <<Tk("<title>"), Tk("App")>>
      [] tv = "two" -> <<Tk("<title>"), Tk("</title>"), Tk("<title>"), Tk("App"),
                         Tk("</title>")>>
      [] OTHER -> <<>>

ExtVariants == {"none", "src", "css"}

ExtHead(ext) ==
    IF ext = "css"
    THEN <<Tk("<link rel=\"stylesheet\" href=\"https://cdn.example.com/a.css\">"),
           Tk("<style>"), Tk("@import url(\"https://cdn.example.com/a.css\");"),
           Tk("</style>")>>
    ELSE <<>>

ExtBody(ext) ==
    IF ext = "src"
    THEN <<Tk("<script src=\"https://cdn.example.com/a.js\">"), Tk("</script>")>>
    ELSE <<>>

\* the document with the parts of miss left out and k bytes of filler
Doc(miss, tv, so, sc, jo, jc, ext, k) ==
    LET P(t) == Opt(t \notin miss, Tk(t))
    IN P("<!DOCTYPE html>") \o P("<html lang=\"en\">") \o P("<head>")
       \o TitleText(tv) \o ExtHead(ext)
       \o Rep(Tk("<style>"), so) \o Rep(Tk("</style>"), sc)
       \o P("</head>") \o P("<body>")
       \o Opt(k > 0, Fill(k)) \o ExtBody(ext)
       \o Rep(Tk("<script>"), jo) \o Rep(Tk("</script>"), jc)
       \o P("</body>") \o P("</html>")

\* the opening and closing style tags of a document
StyleCounts == {<<0, 0>>, <<1, 1>>, <<1, 0>>, <<0, 1>>}

\* the sizes around the two bounds
TargetSizes == {MIN_FILE_SIZE - 1, MIN_FILE_SIZE, MAX_FILE_SIZE, MAX_FILE_SIZE + 1}

\* the filler that brings the document to size t (none if it is already longer)
DocOfSize(miss, tv, so, sc, jo, jc, ext, t) ==
    LET base == Utf8Len(Doc(miss, tv, so, sc, jo, jc, ext, 0))
    IN Doc(miss, tv, so, sc, jo, jc, ext, IF t > base THEN t - base ELSE 0)

NoResult == [is_valid |-> FALSE, errors |-> <<Err("not called", "", 0, 0)>>, warnings |-> <<>>]

(***************************************************************************)
(* agent/code_generator.py: _query_ollama.  A text is a number of          *)
(* characters here.                                                        *)
(***************************************************************************)
ERROR_BODY_LIMIT == 500
MaxExcess == 2

\* what the backend does with a request: it answers with a status, a body
\* and, in a well-formed body, the generated text, or the transport fails
Backend(kind, status, body, text) == [kind |-> kind, status |-> status, body |-> body, text |-> text]
NoBackend == Backend("none", 0, 0, 0)

ErrorStatuses == {400, 404, 429, 500, 502, 503}
BodyLengths == {0, 1} \cup ((ERROR_BODY_LIMIT - 1)..(ERROR_BODY_LIMIT + MaxExcess))
TextLengths == {0, 1, ERROR_BODY_LIMIT + MaxExcess}
TransportFailures == {"ConnectionError", "ConnectTimeout", "ReadTimeout"}

Backends ==
    {Backend("answer", 200, n + 20, n) : n \in TextLengths}
    \cup {Backend("not json", 200, n, 0) : n \in BodyLengths}
    \cup {Backend("no response field", 200, n + 2, 0) : n \in BodyLengths}
    \cup {Backend("error status", c, n, 0) : c \in ErrorStatuses, n \in BodyLengths}
    \cup {Backend(f, 0, 0, 0) : f \in TransportFailures}

\* what _query_ollama gives its caller: the text returned, or the exception
\* raised with the status and the body text it carries
Answer(kind, status, payload) == [kind |-> kind, status |-> status, payload |-> payload]
NoAnswer == Answer("none", 0, 0)

\* the whole body put in the message
error_body_whole(body) == body

\* error_body = response.text[:500]
error_body(body) == IF body < ERROR_BODY_LIMIT THEN body ELSE ERROR_BODY_LIMIT

\* the statements after requests.post
QueryOutcome(b) ==
    CASE b.kind \in TransportFailures -> Answer(b.kind, 0, 0)
      [] b.kind = "error status" -> Answer("RuntimeError", b.status, error_body(b.body))
      [] b.kind = "not json" -> Answer("JSONDecodeError", 0, 0)
      [] b.kind = "no response field" -> Answer("KeyError", 0, 0)
      [] OTHER -> Answer("returned", 0, b.text)

(***************************************************************************)
(* agent/code_generator.py: _extract_html                                  *)
(***************************************************************************)
\* text.strip()
RECURSIVE LStrip(_)
LStrip(text) == IF text # <<>> /\ IsSpace(Head(text).s) THEN LStrip(Tail(text)) ELSE text

RECURSIVE RStrip(_)
RStrip(text) ==
    IF text # <<>> /\ IsSpace(text[Len(text)].s)
    THEN RStrip(SubSeq(text, 1, Len(text) - 1))
    ELSE text

Strip(text) == RStrip(LStrip(text))

\* the unit opens a fence tagged htm or html and ends its line
IsHtmlFence(s) == s \in {"FENCE html\n", "FENCE htm\n"}
\* the unit holds three backquotes
HasFence(s) == s \in {"FENCE", "FENCE\n", "FENCE html\n", "FENCE htm\n"}
\* the unit ends with a newline
EndsLine(s) == s \in {"\n", "FENCE\n", "FENCE html\n", "FENCE htm\n"}
\* s.lower().startswith("<!doctype") or s.lower().startswith("<html")
StartsDocument(s) == LowerText(s) \in {"<!doctype html>", "<html lang=\"en\">"}

\* re.search of the fenced block: the leftmost opening fence that a later
\* fence closes, up to the first fence after it
FenceMatch(raw) ==
    LET closes(i) == {j \in DOMAIN raw : j > i /\ HasFence(raw[j].s)}
        starts == {i \in DOMAIN raw : IsHtmlFence(raw[i].s) /\ closes(i) # {}}
    IN IF starts = {}
       THEN [found |-> FALSE, group |-> <<>>]
       ELSE LET i == Min(starts)
            IN [found |-> TRUE, group |-> SubSeq(raw, i + 1, Min(closes(i)) - 1)]

\* re.search(r"(<!DOCTYPE html>.*</html>)", raw, re.DOTALL | re.IGNORECASE):
\* the leftmost declaration that a closing root tag follows, up to the last one
DocumentMatch(raw) ==
    LET ends(i) == {j \in DOMAIN raw : j > i /\ LowerText(raw[j].s) = "</html>"}
        starts == {i \in DOMAIN raw :
                     LowerText(raw[i].s) = "<!doctype html>" /\ ends(i) # {}}
    IN IF starts = {}
       THEN [found |-> FALSE, group |-> <<>>]
       ELSE LET i == Min(starts)
            IN [found |-> TRUE, group |-> SubSeq(raw, i, Max(ends(i)))]

\* the scan without its break: from the last line that starts a document
LineScanLastLine(raw) ==
    LET text == Strip(raw)
        lineStart(i) == i = 1 \/ EndsLine(text[i - 1].s)
        firstOfLine(i) ==
            \E k \in 1..i : /\ lineStart(k)
                            /\ \A m \in k..(i - 1) : text[m].s = " "
        hits == {i \in DOMAIN text : firstOfLine(i) /\ StartsDocument(text[i].s)}
        start == IF hits = {} THEN 1
                 ELSE Max({k \in 1..Max(hits) : lineStart(k)})
    IN Strip(SubSeq(text, start, Len(text)))

\* the last resort: from the first line that starts a document to the end
LineScan(raw) ==
    LET text == Strip(raw)
        \* the first unit of a line that is not whitespace inside the line
        lineStart(i) == i = 1 \/ EndsLine(text[i - 1].s)
        firstOfLine(i) ==
            \E k \in 1..i : /\ lineStart(k)
                            /\ \A m \in k..(i - 1) : text[m].s = " "
        hits == {i \in DOMAIN text : firstOfLine(i) /\ StartsDocument(text[i].s)}
        start == IF hits = {} THEN 1
                 ELSE Max({k \in 1..Min(hits) : lineStart(k)})
    IN Strip(SubSeq(text, start, Len(text)))

\* the rules tried in another order: the complete document before the fence
_extract_html_document_first(raw) ==
    LET code_block == FenceMatch(raw)
        html_match == DocumentMatch(raw)
    IN IF html_match.found THEN Strip(html_match.group)
       ELSE IF code_block.found THEN Strip(code_block.group)
       ELSE LineScan(raw)

_extract_html(raw) ==
    LET code_block == FenceMatch(raw)
        html_match == DocumentMatch(raw)
    IN IF code_block.found THEN Strip(code_block.group)
       ELSE IF html_match.found THEN Strip(html_match.group)
       ELSE LineScan(raw)

\* the rule _extract_html returns by
ExtractionRule(raw) ==
    IF FenceMatch(raw).found THEN "fence"
    ELSE IF DocumentMatch(raw).found THEN "document"
    ELSE "lines"

(***************************************************************************)
(* The texts _extract_html is applied to: something before, a body that is *)
(* bare or fenced, padded by up to MaxPad blank lines, and something       *)
(* after.                                                                  *)
(***************************************************************************)
MaxPad == 1

Bodies ==
    { \* a complete document
      <<Tk("<!DOCTYPE html>"), Tk("\n"), Tk("<html lang=\"en\">"), Tk("<title>"),
        Tk("App"), Tk("</title>"), Tk("\n"), Tk("</html>")>>,
      \* a document without declaration
      <<Tk("<html lang=\"en\">"), Tk("\n"), Tk("<body>"), Tk("App"), Tk("</body>"),
        Tk("\n"), Tk("</html>")>>,
      \* a document cut off before its end
      <<Tk("<!doctype html>"), Tk("\n"), Tk("<body>"), Tk("App")>>,
      \* no document at all
      <<Tk("App")>> }

Befores == {"none", "prose", "inline", "space", "document", "declaration"}
Fences == {"none", "html", "htm", "unclosed", "untagged"}
Afters == {"none", "prose", "space", "closing"}

Before(b) ==
    CASE b = "prose" -> <<Tk("Here is the app:"), Tk("\n")>>
      [] b = "inline" -> <<Tk("Here is the app:"), Tk(" ")>>
      [] b = "space" -> <<Tk(" "), Tk("\n")>>
      [] b = "document" -> <<Tk("<!DOCTYPE html>"), Tk("<body>"), Tk("x"), Tk("</body>"),
                             Tk("</html>"), Tk("\n")>>
      [] b = "declaration" -> <<Tk("<!DOCTYPE html>"), Tk("\n")>>
      [] OTHER -> <<>>

After(a) ==
    CASE a = "prose" -> <<Tk("\n"), Tk("Here is the app:")>>
      [] a = "space" -> <<Tk("\n"), Tk(" ")>>
      [] a = "closing" -> <<Tk("\n"), Tk("</html>")>>
      [] OTHER -> <<>>

\* the body between k blank lines
Padded(body, k) == Rep(Tk("\n"), k) \o body \o Rep(Tk("\n"), k)

Fenced(f, text) ==
    CASE f = "html" -> <<Tk("FENCE html\n")>> \o text \o <<Tk("FENCE")>>
      [] f = "htm" -> <<Tk("FENCE htm\n")>> \o text \o <<Tk("FENCE")>>
      [] f = "unclosed" -> <<Tk("FENCE html\n")>> \o text
      [] f = "untagged" -> <<Tk("FENCE\n")>> \o text \o <<Tk("FENCE")>>
      [] OTHER -> text

RawText(c) == Before(c.before) \o Fenced(c.fence, Padded(c.body, c.pad)) \o After(c.after)

NoCase == [before |-> "none", fence |-> "none", body |-> <<>>, pad |-> 0, after |-> "none"]
NotExtracted == [html |-> <<>>, rule |-> "not called"]

(***************************************************************************)
(* agent/idea_generator.py.  Titles and slugs are sequences of characters. *)
(***************************************************************************)
\* the letters of the model: the ASCII letters and E with acute accent,
\* which str.lower and str.isalnum treat as a letter too
UpperLetters == <<"A", "B", "C", "D", "E", "F", "G", "H", "I", "J", "K", "L", "M",
                  "N", "O", "P", "Q", "R", "S", "T", "U", "V", "W", "X", "Y", "Z",
                  "\\u00c9">>
LowerLetters == <<"a", "b", "c", "d", "e", "f", "g", "h", "i", "j", "k", "l", "m",
                  "n", "o", "p", "q", "r", "s", "t", "u", "v", "w", "x", "y", "z",
                  "\\u00e9">>
Digits == {"0", "1", "2", "3", "4", "5", "6", "7", "8", "9"}

\* the lowercase letter of every uppercase letter
LowerMap ==
    [u \in Range(UpperLetters) |->
        LowerLetters[CHOOSE i \in DOMAIN UpperLetters : UpperLetters[i] = u]]

\* c.lower()
LowerChar(c) == IF c \in DOMAIN LowerMap THEN LowerMap[c] ELSE c

\* str.lower()
LowerStr(str) == [i \in DOMAIN str |-> LowerChar(str[i])]

\* c.isalnum()
AlnumChars == Range(UpperLetters) \cup Range(LowerLetters) \cup Digits
IsAlnum(c) == c \in AlnumChars

\* the two statements in the other order: the filter, then the hyphens
NormalizeSlugFilterFirst(slug) ==
    LET kept == SelectSeq(slug, LAMBDA c : IsAlnum(c) \/ c = "-")
    IN [i \in DOMAIN kept |-> IF LowerChar(kept[i]) = " " THEN "-" ELSE LowerChar(kept[i])]

\* idea["slug"].lower().replace(" ", "-"), then the characters that are
\* alphanumeric or "-"
NormalizeSlug(slug) ==
    LET hyphened == [i \in DOMAIN slug |->
                       IF LowerChar(slug[i]) = " " THEN "-" ELSE LowerChar(slug[i])]
    IN SelectSeq(hyphened, LAMBDA c : IsAlnum(c) \/ c = "-")

NoIdea == [title |-> <<>>, slug |-> <<>>]
NotNormalized == <<"not called">>

\* the slugs the backend answers in SpecSlug: every text of up to MaxSlugLen
\* of these characters, and the slug of the example
MaxSlugLen == 3
SlugChars == {"M", "y", " ", "!", "-", "2", "\\u00c9"}
MyCoolApp == <<"M", "y", " ", "C", "o", "o", "l", " ", "A", "p", "p", "!", "!">>
SlugInputs ==
    UNION {[1..n -> SlugChars] : n \in 0..MaxSlugLen} \cup {MyCoolApp}
NoMeta == [title |-> <<>>, slug |-> <<>>, attempt |-> 0, phase1_seconds |-> 0,
           phase2_seconds |-> 0, total_seconds |-> 0, output_bytes |-> 0,
           temperature |-> 0, readable |-> FALSE]
None == <<[s |-> "None", n |-> 0]>>
NoBenchmark == [phase1_seconds |-> 0, phase2_seconds |-> 0, total_seconds |-> 0,
                output_bytes |-> 0, temperature |-> 0]

\* what the backend answers to the idea prompt
IdeaResponses ==
    { [title |-> <<"T", "i", "c", " ", "T", "a", "c", " ", "T", "o", "e">>, slug |-> <<"t", "i", "c", "-", "t", "a", "c", "-", "t", "o", "e">>],
      [title |-> <<"T", "I", "C", " ", "T", "A", "C", " ", "T", "O", "E">>, slug |-> <<"T", "i", "c", " ", "T", "a", "c", " ", "T", "o", "e", " ", "2", "!">>],
      [title |-> <<"T", "i", "c", "-", "T", "a", "c", "-", "T", "o", "e">>, slug |-> <<"T", "i", "c", " ", "T", "a", "c", " ", "T", "o", "e", "!", "!">>] }

Slugs == {NormalizeSlug(r.slug) : r \in IdeaResponses}

\* _get_existing_titles: the lowercased titles of the readable metadata files
_get_existing_titles(store) ==
    {LowerStr(store[g].meta.title) : g \in {h \in DOMAIN store : store[h].meta.readable}}

\* the duplicate check extended to the slug
generate_idea_slug_guarded(store, r) ==
    LET existing == _get_existing_titles(store)
        taken == {g \in DOMAIN store : store[g].meta.readable}
    IN IF LowerStr(r.title) \in existing \/ NormalizeSlug(r.slug) \in taken
       THEN NoIdea
       ELSE [title |-> r.title, slug |-> NormalizeSlug(r.slug)]

\* the duplicate check comparing the titles as they are written
generate_idea_case_sensitive(store, r) ==
    LET existing == {store[g].meta.title : g \in {h \in DOMAIN store : store[h].meta.readable}}
    IN IF r.title \in existing
       THEN NoIdea
       ELSE [title |-> r.title, slug |-> NormalizeSlug(r.slug)]

\* generate_idea after the backend answered r: the idea returned, or NoIdea
\* when the duplicate check raises
generate_idea(store, r) ==
    LET existing == _get_existing_titles(store)
    IN IF LowerStr(r.title) \in existing
       THEN NoIdea
       ELSE [title |-> r.title, slug |-> NormalizeSlug(r.slug)]

(***************************************************************************)
(* What the backend answers to the code prompt: prose and a fenced valid   *)
(* document, or a bare document without title and closing body tag.        *)
(***************************************************************************)
PageA == Doc({}, "wide", 1, 1, 1, 1, "src", MIN_FILE_SIZE)
PageBroken == Doc({"</body>"}, "none", 0, 0, 1, 0, "none", 0)

CodeResponses ==
    { <<Tk("Here is the app:"), Tk("\n"), Tk("FENCE html\n")>> \o PageA
          \o <<Tk("\n"), Tk("FENCE")>>,
      <<Tk("Here is the app:"), Tk("\n")>> \o PageBroken \o <<Tk("\n")>> }

(***************************************************************************)
(* agent/main.py: the process and one cycle.                               *)
(***************************************************************************)
MaxRetries == 3
MaxCycles == 2

\* GenerationConfig.temperature and temperature_increment, in hundredths
BaseTemperature == 70
TemperatureIncrements == {0, 10}

\* the configurations: every mode and retry budget with the default
\* increment and without push, and the largest budget also with the other
\* increments and with push
Configs ==
    LET Config(o, p, m, i) ==
            [once |-> o, auto_push |-> p, max_retries |-> m,
             temperature |-> BaseTemperature, temperature_increment |-> i]
    IN {Config(o, FALSE, m, 10) : o \in BOOLEAN, m \in 0..MaxRetries}
       \cup {Config(TRUE, p, MaxRetries, i) : p \in BOOLEAN, i \in TemperatureIncrements}

VARIABLES
    vhtml,          \* the document handed to validate_html (SpecValidate)
    vresult,        \* what validate_html returned for it
    xcase,          \* how the text handed to _extract_html is built (SpecExtract)
    xraw,           \* the text handed to _extract_html
    xresult,        \* what _extract_html returned for it, and by which rule
    sslug,          \* the slug of the backend's answer to generate_idea (SpecSlug)
    sresult,        \* the slug of the idea generate_idea returned for it
    qbackend,       \* how the backend treats the request of _query_ollama (SpecClient)
    qpc,            \* the position of _query_ollama
    qrequests,      \* the requests _query_ollama has sent
    qresult,        \* what _query_ollama returned or raised
    config,         \* args.once and config.generation
    pc,             \* the position of the process in main / run_daily_cycle
    cycles,         \* the number of cycles started
    idea,           \* run_daily_cycle: idea
    attempt,        \* run_daily_cycle: attempt
    temp,           \* run_daily_cycle: temp
    html,           \* run_daily_cycle: html
    benchmark,      \* run_daily_cycle: benchmark
    attempt_used,   \* run_daily_cycle: attempt_used
    plan,           \* generate_code: plan
    store,          \* the app directories of the repository
    index,          \* the apps listed by the rendered index.html and benchmark.html
    commits,        \* the commits made
    result,         \* what the last call of run_daily_cycle returned
    exit_code,      \* the exit status of the process, -1 while it runs
    calls,          \* the backend requests of this cycle, in order
    verdicts,       \* the validate_html calls of this cycle, in order
    persisted,      \* the persistence calls of this cycle, in order
    store0          \* the app directories when this cycle started

vstate == <<vhtml, vresult>>
xstate == <<xcase, xraw, xresult>>
sstate == <<sslug, sresult>>
qstate == <<qbackend, qpc, qrequests, qresult>>
vvars == <<vstate, xstate, sstate, qstate>>
proc == <<config, pc, cycles, idea, attempt, temp, html, benchmark, attempt_used, plan,
          store, index, commits, result, exit_code, calls, verdicts, persisted, store0>>
locals == <<idea, attempt, temp, html, benchmark, attempt_used, plan>>
disk == <<store, index, commits>>
history == <<calls, verdicts, persisted, store0>>
vars == <<vhtml, vresult, xcase, xraw, xresult, sslug, sresult, qbackend, qpc, qrequests,
          qresult, config, pc, cycles, idea, attempt, temp, html, benchmark,
          attempt_used, plan, store, index, commits, result, exit_code, calls,
          verdicts, persisted, store0>>

NoDir == [dir |-> FALSE, html |-> None, meta |-> NoMeta]

Idle ==
    /\ config \in Configs
    /\ pc = "main"
    /\ cycles = 0
    /\ idea = NoIdea
    /\ attempt = 0
    /\ temp = 0
    /\ html = None
    /\ benchmark = NoBenchmark
    /\ attempt_used = 0
    /\ plan = 0
    /\ store = [g \in Slugs |-> NoDir]
    /\ index = [gallery |-> {}, benchmark |-> {}]
    /\ commits = <<>>
    /\ result = "none"
    /\ exit_code = -1
    /\ calls = <<>>
    /\ verdicts = <<>>
    /\ persisted = <<>>
    /\ store0 = store

NoValidation ==
    /\ vhtml = <<>>
    /\ vresult = NoResult

NoExtraction ==
    /\ xcase = NoCase
    /\ xraw = <<>>
    /\ xresult = NotExtracted

NoSlug ==
    /\ sslug = <<>>
    /\ sresult = NotNormalized

NoQuery ==
    /\ qbackend = NoBackend
    /\ qpc = "idle"
    /\ qrequests = 0
    /\ qresult = NoAnswer

Init ==
    /\ Idle
    /\ NoValidation
    /\ NoExtraction
    /\ NoSlug
    /\ NoQuery

\* one backend request: the generation phase, the attempt it belongs to, the
\* sampling temperature sent, the number of the request whose answer the
\* prompt embeds as the plan, whether an answer came back, and the answer
\* to the code prompt
Call(kind, n, t, p, ok, raw) ==
    [kind |-> kind, attempt |-> n, temperature |-> t, plan |-> p, ok |-> ok, raw |-> raw]

\* one persistence call
Persist(op, slug, doc, ok) == [op |-> op, slug |-> slug, html |-> doc, ok |-> ok]

\* time.monotonic() - t0 around a request of attempt n
Seconds(kind, n) == IF kind = "plan" THEN 2 * n - 1 ELSE 2 * n

\* the options.temperature of the idea request
IdeaTemperature == 90

\* the temperature computed from attempt instead of attempt - 1
TemperatureFromAttempt(cfg, n) == cfg.temperature + n * cfg.temperature_increment

\* temp = config.generation.temperature + (attempt - 1) * temperature_increment
Temperature(cfg, n) == cfg.temperature + (n - 1) * cfg.temperature_increment

\* the list of errors kept from the validation before and extended
VerdictCarriedOver(previous, doc) ==
    LET v == validate_html(doc)
        carried == IF previous = <<>> THEN <<>> ELSE previous[Len(previous)].errors
    IN [is_valid |-> Len(carried \o v.errors) = 0, errors |-> carried \o v.errors,
        warnings |-> v.warnings]

\* is_valid, errors = validate_html(html): errors starts empty in every
\* call, whatever the validations before it (previous) found
Verdict(previous, doc) == validate_html(doc)

\* the verdict ignored: every artifact goes on to persistence
AcceptsAnything(v) == TRUE

\* if is_valid:
Accepts(v) == v.is_valid

\* the rejected artifact left in html
HtmlKeptAfterRejection(h) == h

\* html = None after a rejection
HtmlAfterRejection(h) == None

\* the loop goes on after an accepted artifact
AfterAcceptedNoBreak == "loop"

\* break
AfterAccepted == "after_loop"

\* the error of a generation phase is not caught
GenerationErrorEscapes == "crashed"

\* the attempt goes on to phase two after a failed request
GenerationErrorGoesOn == "phase2"

\* except Exception ... continue
AfterGenerationError == "loop"

\* generate_idea is called again after it failed
IdeaErrorRetried == "idea"

\* except Exception ... return False
AfterIdeaError == "returned"

\* where an exception that nothing catches leaves the process
Raised(next) == next = "crashed"

\* main calls run_daily_cycle: once, or at the start and then from
\* schedule.run_pending
StartCycle ==
    /\ pc \in {"main", "sleep"}
    /\ cycles < MaxCycles
    /\ pc' = "idea"
    /\ cycles' = cycles + 1
    /\ idea' = NoIdea
    /\ attempt' = 0
    /\ temp' = 0
    /\ html' = None
    /\ benchmark' = NoBenchmark
    /\ attempt_used' = 0
    /\ plan' = 0
    /\ result' = "none"
    /\ calls' = <<>>
    /\ verdicts' = <<>>
    /\ persisted' = <<>>
    /\ store0' = store
    /\ UNCHANGED <<vvars, config, disk, exit_code>>

\* idea = generate_idea(config), and the except clause around it
GenerateIdea ==
    /\ pc = "idea"
    /\ \/ \* the request fails, or its answer has no JSON or lacks a field
          /\ calls' = Append(calls, Call("idea", 0, IdeaTemperature, 0, FALSE, <<>>))
          /\ pc' = AfterIdeaError
          /\ result' = "False"
          /\ idea' = idea
       \/ \E r \in IdeaResponses :
            /\ calls' = Append(calls, Call("idea", 0, IdeaTemperature, 0, TRUE, <<>>))
            /\ IF generate_idea(store, r) = NoIdea
               THEN /\ pc' = AfterIdeaError
                    /\ result' = "False"
                    /\ idea' = idea
               ELSE /\ pc' = "loop"
                    /\ result' = result
                    /\ idea' = generate_idea(store, r)
    /\ UNCHANGED <<vvars, config, cycles, attempt, temp, html, benchmark, attempt_used,
                   plan, disk, exit_code, verdicts, persisted, store0>>

\* the range with one attempt more: range(1, config.generation.max_retries + 2)
AttemptRangeOneMore(cfg) == 1..(cfg.max_retries + 1)

\* range(1, config.generation.max_retries + 1)
AttemptRange(cfg) == 1..cfg.max_retries

\* for attempt in range(1, config.generation.max_retries + 1)
LoopHead ==
    /\ pc = "loop"
    /\ IF attempt + 1 \in AttemptRange(config)
       THEN /\ attempt' = attempt + 1
            /\ temp' = Temperature(config, attempt + 1)
            /\ pc' = "phase1"
       ELSE /\ pc' = "after_loop"
            /\ UNCHANGED <<attempt, temp>>
    /\ UNCHANGED <<vvars, config, cycles, idea, html, benchmark, attempt_used, plan,
                   disk, result, exit_code, history>>

\* generate_code: plan = _query_ollama(config, plan_prompt, temperature)
Phase1 ==
    /\ pc = "phase1"
    /\ \E ok \in BOOLEAN :
         /\ calls' = Append(calls, Call("plan", attempt, temp, 0, ok, <<>>))
         /\ IF ok
            THEN /\ plan' = Len(calls) + 1
                 /\ pc' = "phase2"
                 /\ UNCHANGED <<result, exit_code>>
            ELSE /\ plan' = plan
                 /\ pc' = AfterGenerationError
                 /\ result' = IF Raised(pc') THEN "raised" ELSE result
                 /\ exit_code' = IF Raised(pc') THEN 1 ELSE exit_code
    /\ UNCHANGED <<vvars, config, cycles, idea, attempt, temp, html, benchmark,
                   attempt_used, disk, verdicts, persisted, store0>>

\* generate_code: raw = _query_ollama(config, code_prompt, temperature), then
\* html = _extract_html(raw) and the benchmark; the two requests of attempt
\* n are taken to last 2n - 1 and 2n seconds
Phase2 ==
    /\ pc = "phase2"
    /\ \/ /\ calls' = Append(calls, Call("code", attempt, temp, plan, FALSE, <<>>))
          /\ pc' = AfterGenerationError
          /\ result' = IF Raised(pc') THEN "raised" ELSE result
          /\ exit_code' = IF Raised(pc') THEN 1 ELSE exit_code
          /\ UNCHANGED <<html, benchmark>>
       \/ \E raw \in CodeResponses :
            /\ calls' = Append(calls, Call("code", attempt, temp, plan, TRUE, raw))
            /\ html' = _extract_html(raw)
            /\ benchmark' = [phase1_seconds |-> Seconds("plan", attempt),
                             phase2_seconds |-> Seconds("code", attempt),
                             total_seconds |-> Seconds("plan", attempt)
                                               + Seconds("code", attempt),
                             output_bytes |-> CharLen(_extract_html(raw)),
                             temperature |-> temp]
            /\ pc' = "validate"
            /\ UNCHANGED <<result, exit_code>>
    /\ UNCHANGED <<vvars, config, cycles, idea, attempt, temp, attempt_used, plan,
                   disk, verdicts, persisted, store0>>

\* is_valid, errors = validate_html(html) and the branches on is_valid
Validate ==
    /\ pc = "validate"
    /\ LET v == Verdict(verdicts, html)
       IN /\ verdicts' = Append(verdicts, [attempt |-> attempt, html |-> html,
                                           is_valid |-> v.is_valid, errors |-> v.errors,
                                           benchmark |-> benchmark])
          /\ IF Accepts(v)
             THEN /\ attempt_used' = attempt
                  /\ pc' = AfterAccepted
                  /\ UNCHANGED <<html, benchmark>>
             ELSE /\ html' = HtmlAfterRejection(html)
                  /\ benchmark' = NoBenchmark
                  /\ pc' = "loop"
                  /\ UNCHANGED attempt_used
    /\ UNCHANGED <<vvars, config, cycles, idea, attempt, temp, plan, disk, result,
                   exit_code, calls, persisted, store0>>

\* if html is None: ... return False
AfterLoop ==
    /\ pc = "after_loop"
    /\ IF html = None
       THEN /\ result' = "False"
            /\ pc' = "returned"
       ELSE /\ result' = result
            /\ pc' = "mkdir"
    /\ UNCHANGED <<vvars, config, cycles, locals, disk, exit_code, history>>

\* an exception leaves run_daily_cycle: nothing in main or in
\* schedule.run_pending catches it, and the interpreter exits with status 1
Crash ==
    /\ pc' = "crashed"
    /\ result' = "raised"
    /\ exit_code' = 1

\* app_dir.mkdir(parents=True, exist_ok=True)
Mkdir ==
    /\ pc = "mkdir"
    /\ \E ok \in BOOLEAN :
         /\ persisted' = Append(persisted, Persist("mkdir", idea.slug, None, ok))
         /\ IF ok
            THEN /\ store' = [store EXCEPT ![idea.slug].dir = TRUE]
                 /\ pc' = "write_html"
                 /\ UNCHANGED <<result, exit_code>>
            ELSE /\ store' = store
                 /\ Crash
    /\ UNCHANGED <<vvars, config, cycles, locals, index, commits, calls, verdicts, store0>>

\* with open(app_dir / "index.html", "w") as f: f.write(html)
\* open can fail and leave the file as it was; it truncates the file, so a
\* failing write leaves it empty
WriteHtml ==
    /\ pc = "write_html"
    /\ \E outcome \in {"ok", "open failed", "write failed"} :
         /\ persisted' = Append(persisted, Persist("write_html", idea.slug, html, outcome = "ok"))
         /\ store' = [store EXCEPT ![idea.slug].html =
                        CASE outcome = "ok" -> html
                          [] outcome = "write failed" -> <<>>
                          [] OTHER -> @]
         /\ IF outcome = "ok"
            THEN /\ pc' = "write_meta"
                 /\ UNCHANGED <<result, exit_code>>
            ELSE Crash
    /\ UNCHANGED <<vvars, config, cycles, locals, index, commits, calls, verdicts, store0>>

\* the metadata with the temperature of the configuration instead of the
\* one the accepted attempt was sampled at
MetadataOfConfig ==
    [title |-> idea.title, slug |-> idea.slug, attempt |-> attempt_used,
     phase1_seconds |-> benchmark.phase1_seconds,
     phase2_seconds |-> benchmark.phase2_seconds,
     total_seconds |-> benchmark.total_seconds,
     output_bytes |-> benchmark.output_bytes,
     temperature |-> config.temperature,
     readable |-> TRUE]

\* metadata = {..., "benchmark": {**(benchmark or {}), "attempt": attempt_used, ...}}
\* description, category, date and the hardware fields of _get_hardware_info,
\* which catches its own errors, are carried along and not modelled
Metadata ==
    [title |-> idea.title, slug |-> idea.slug, attempt |-> attempt_used,
     phase1_seconds |-> benchmark.phase1_seconds,
     phase2_seconds |-> benchmark.phase2_seconds,
     total_seconds |-> benchmark.total_seconds,
     output_bytes |-> benchmark.output_bytes,
     temperature |-> benchmark.temperature,
     readable |-> TRUE]

\* with open(app_dir / "metadata.json", "w") as f: json.dump(metadata, f, indent=2)
\* a failing write leaves a file that json.load rejects
WriteMetadata ==
    /\ pc = "write_meta"
    /\ \E outcome \in {"ok", "open failed", "write failed"} :
         /\ persisted' = Append(persisted, Persist("write_meta", idea.slug, None, outcome = "ok"))
         /\ store' = [store EXCEPT ![idea.slug].meta =
                        CASE outcome = "ok" -> Metadata
                          [] outcome = "write failed" -> NoMeta
                          [] OTHER -> @]
         /\ IF outcome = "ok"
            THEN /\ pc' = "update_index"
                 /\ UNCHANGED <<result, exit_code>>
            ELSE Crash
    /\ UNCHANGED <<vvars, config, cycles, locals, index, commits, calls, verdicts, store0>>

\* scan_apps: the directories whose metadata.json loads
scan_apps(st) == {g \in DOMAIN st : st[g].meta.readable}

\* the app directory put back as the cycle found it
RolledBackAfterFailure(st, g) == [st EXCEPT ![g] = store0[g]]

\* the except clauses around update_index and commit_app log and return
\* False: the app directory stays as the cycle wrote it
AfterPersistenceFailure(st, g) == st

\* try: update_index(config.git.repo_path) except Exception: return False
\* update_index writes index.html, then benchmark.html
UpdateIndex ==
    /\ pc = "update_index"
    /\ \E outcome \in {"ok", "no template", "benchmark page failed"} :
         /\ persisted' = Append(persisted, Persist("update_index", idea.slug, None, outcome = "ok"))
         /\ index' = CASE outcome = "ok" ->
                            [gallery |-> scan_apps(store), benchmark |-> scan_apps(store)]
                       [] outcome = "benchmark page failed" ->
                            [index EXCEPT !.gallery = scan_apps(store)]
                       [] OTHER -> index
         /\ IF outcome = "ok"
            THEN /\ pc' = "commit"
                 /\ result' = result
            ELSE /\ pc' = "returned"
                 /\ result' = "False"
         /\ store' = IF outcome = "ok"
                     THEN store
                     ELSE AfterPersistenceFailure(store, idea.slug)
    /\ UNCHANGED <<vvars, config, cycles, locals, commits, exit_code, calls,
                   verdicts, store0>>

\* commit_app: git add, git commit, and git push when auto_push is set;
\* _run_git raises when git runs longer than its timeout
CommitOutcomes(cfg) ==
    {"ok", "add failed", "commit failed", "timeout"}
    \cup (IF cfg.auto_push THEN {"push failed"} ELSE {})

\* try: success = commit_app(...) ... except Exception: return False
Commit ==
    /\ pc = "commit"
    /\ \E outcome \in CommitOutcomes(config) :
         /\ persisted' = Append(persisted, Persist("commit", idea.slug, None, outcome = "ok"))
         /\ commits' = IF outcome \in {"ok", "push failed"}
                       THEN Append(commits, [slug |-> idea.slug, title |-> idea.title])
                       ELSE commits
         /\ result' = IF outcome = "ok" THEN "True" ELSE "False"
         /\ store' = IF outcome = "ok"
                     THEN store
                     ELSE AfterPersistenceFailure(store, idea.slug)
         /\ pc' = "returned"
    /\ UNCHANGED <<vvars, config, cycles, locals, index, exit_code, calls,
                   verdicts, store0>>

\* main after run_daily_cycle returned: sys.exit(0 if success else 1) with
\* --once, else the scheduler loop
AfterCycle ==
    /\ pc = "returned"
    /\ IF config.once
       THEN /\ pc' = "exited"
            /\ exit_code' = IF result = "True" THEN 0 ELSE 1
       ELSE /\ pc' = "sleep"
            /\ exit_code' = exit_code
    /\ UNCHANGED <<vvars, config, cycles, locals, disk, result, history>>

Next ==
    \/ StartCycle
    \/ GenerateIdea
    \/ LoopHead
    \/ Phase1
    \/ Phase2
    \/ Validate
    \/ AfterLoop
    \/ Mkdir
    \/ WriteHtml
    \/ WriteMetadata
    \/ UpdateIndex
    \/ Commit
    \/ AfterCycle

Spec == Init /\ [][Next]_vars

\* the steps of run_daily_cycle up to the end of the attempt loop that send
\* a request or branch: the code is sequential, _extract_html is total, and
\* every backend request returns or fails: requests.post is called with
\* timeout=config.ollama.timeout
GenerationStep ==
    \/ GenerateIdea
    \/ LoopHead
    \/ Phase1
    \/ Phase2
    \/ AfterLoop

\* validate_html returns: it raises nothing and loops over its text only,
\* so the process leaves main.py:99 for one of the two branches
ValidateReturns == pc = "validate" /\ pc' \in {AfterAccepted, "loop"}

\* the process when every call of the generation part returns or fails
SpecFair ==
    /\ Init
    /\ [][Next]_vars
    /\ WF_vars(GenerationStep)
    /\ WF_pc(ValidateReturns)

(***************************************************************************)
(* The validator applied to the documents of the family.                   *)
(***************************************************************************)
InitValidate ==
    /\ Idle
    /\ config = [once |-> TRUE, auto_push |-> FALSE, max_retries |-> MaxRetries,
                 temperature |-> BaseTemperature, temperature_increment |-> 10]
    /\ \E miss \in {m \in SUBSET Parts : Cardinality(m) <= MaxMissing},
          tv \in TitleVariants, st \in StyleCounts,
          jo \in 0..MaxTags, jc \in 0..MaxTags, ext \in ExtVariants,
          t \in TargetSizes :
            vhtml = DocOfSize(miss, tv, st[1], st[2], jo, jc, ext, t)
    /\ vresult = NoResult
    /\ NoExtraction
    /\ NoSlug
    /\ NoQuery

\* is_valid, errors = validate_html(html)
ValidateDocument ==
    /\ vresult = NoResult
    /\ vresult' = validate_html(vhtml)
    /\ UNCHANGED <<vhtml, xstate, sstate, qstate, proc>>

NextValidate == ValidateDocument

SpecValidate == InitValidate /\ [][NextValidate]_vars

(***************************************************************************)
(* generate_idea applied to the slugs of SlugInputs, with nothing stored.  *)
(***************************************************************************)
InitSlug ==
    /\ Idle
    /\ config = [once |-> TRUE, auto_push |-> FALSE, max_retries |-> MaxRetries,
                 temperature |-> BaseTemperature, temperature_increment |-> 10]
    /\ NoValidation
    /\ NoExtraction
    /\ sslug \in SlugInputs
    /\ sresult = NotNormalized
    /\ NoQuery

\* idea = generate_idea(config), the backend answering with the slug sslug
GenerateIdeaSlug ==
    /\ sresult = NotNormalized
    /\ sresult' = generate_idea(store, [title |-> <<"A", "p", "p">>, slug |-> sslug]).slug
    /\ UNCHANGED <<vstate, xstate, sslug, qstate, proc>>

NextSlug == GenerateIdeaSlug

SpecSlug == InitSlug /\ [][NextSlug]_vars

(***************************************************************************)
(* One call of _query_ollama against every behaviour of the backend.       *)
(***************************************************************************)
InitClient ==
    /\ Idle
    /\ config = [once |-> TRUE, auto_push |-> FALSE, max_retries |-> MaxRetries,
                 temperature |-> BaseTemperature, temperature_increment |-> 10]
    /\ NoValidation
    /\ NoExtraction
    /\ NoSlug
    /\ qbackend \in Backends
    /\ qpc = "called"
    /\ qrequests = 0
    /\ qresult = NoAnswer

\* response = requests.post(..., timeout=config.ollama.timeout)
QueryPost ==
    /\ qpc = "called"
    /\ qrequests' = qrequests + 1
    /\ qpc' = "posted"
    /\ UNCHANGED <<vstate, xstate, sstate, qbackend, qresult, proc>>

\* the exception of requests.post, or: if not response.ok: raise
\* RuntimeError(...); return response.json()["response"]
QueryReturn ==
    /\ qpc = "posted"
    /\ qresult' = QueryOutcome(qbackend)
    /\ qpc' = "done"
    /\ UNCHANGED <<vstate, xstate, sstate, qbackend, qrequests, proc>>

NextClient ==
    \/ QueryPost
    \/ QueryReturn

SpecClient == InitClient /\ [][NextClient]_vars

(***************************************************************************)
(* The extractor applied to the texts of the family.                       *)
(***************************************************************************)
InitExtract ==
    /\ Idle
    /\ config = [once |-> TRUE, auto_push |-> FALSE, max_retries |-> MaxRetries,
                 temperature |-> BaseTemperature, temperature_increment |-> 10]
    /\ NoValidation
    /\ xcase \in [before : Befores, fence : Fences, body : Bodies, pad : 0..MaxPad,
                   after : Afters]
    /\ xraw = RawText(xcase)
    /\ xresult = NotExtracted
    /\ NoSlug
    /\ NoQuery

\* html = _extract_html(raw)
ExtractDocument ==
    /\ xresult = NotExtracted
    /\ xresult' = [html |-> _extract_html(xraw), rule |-> ExtractionRule(xraw)]
    /\ UNCHANGED <<vstate, xcase, xraw, sstate, qstate, proc>>

NextExtract == ExtractDocument

SpecExtract == InitExtract /\ [][NextExtract]_vars

(***************************************************************************)
(* Claims about the validator, checked under SpecValidate.                 *)
(***************************************************************************)
Validated == vresult # NoResult

\* the rules a document violates, each with the entry that reports it
ViolatedRules(doc) ==
    LET low == Lower(doc)
        size == Utf8Len(doc)
        m == TitleMatch(doc)
        opens(tag) == CountMatches(low, OpenPattern(tag))
        closes(tag) == CountMatches(low, ClosePattern(tag))
    IN {Err("File too small", "", size, MIN_FILE_SIZE) : x \in {1} \cap {IF size < MIN_FILE_SIZE THEN 1 ELSE 0}}
       \cup {Err("File too large", "", size, MAX_FILE_SIZE) : x \in {1} \cap {IF size > MAX_FILE_SIZE THEN 1 ELSE 0}}
       \cup {Err("Missing required element", p, 0, 0) : p \in {q \in Range(REQUIRED_ELEMENTS) : ~Contains(low, q)}}
       \cup {Err("Missing closing tag", p, 0, 0) : p \in {q \in Range(CLOSING_TAGS) : ~Contains(low, q)}}
       \cup {Err("No <title> element found", "", 0, 0) : x \in {1} \cap {IF m.found THEN 0 ELSE 1}}
       \cup {Err("Empty <title> element", "", 0, 0) : x \in {1} \cap {IF m.found /\ IsBlank(m.group) THEN 1 ELSE 0}}
       \cup {Err("Mismatched tags", t, opens(t), closes(t)) : t \in {u \in Range(BLOCK_TAGS) : opens(u) # closes(u)}}

\* C8: the validator never short-circuits: the returned list has an entry for
\* every rule the document violates, so a document without </body> gets
\* "Missing closing tag: </body>" next to every other violation
C8_NoShortCircuit ==
    Validated => ViolatedRules(vhtml) \subseteq Range(vresult.errors)

\* a document without </body> that violates at least three rules, all reported
C8_Witness ==
    /\ Validated
    /\ Err("Missing closing tag", "</body>", 0, 0) \in Range(vresult.errors)
    /\ Cardinality(ViolatedRules(vhtml)) >= 3
    /\ Len(vresult.errors) >= 3

\* the first title element of the document, with or without attributes on
\* its opening tag, is closed and has a non-blank interior
HasNonEmptyTitle(doc) ==
    LET low == Lower(doc)
        opens == {i \in DOMAIN low : "<title" \in PatternsIn(low[i].s)}
    IN /\ opens # {}
       /\ LET i == Min(opens)
              closes == {j \in DOMAIN low : j > i /\ "</title>" \in PatternsIn(low[j].s)}
          IN /\ closes # {}
             /\ ~IsBlank(SubSeq(doc, i + 1, Min(closes) - 1))

WellFormed(doc) ==
    LET low == Lower(doc)
    IN /\ \A p \in Range(REQUIRED_ELEMENTS) : Contains(low, p)
       /\ \A p \in Range(CLOSING_TAGS) : Contains(low, p)
       /\ HasNonEmptyTitle(doc)
       /\ \A t \in Range(BLOCK_TAGS) :
            CountMatches(low, OpenPattern(t)) = CountMatches(low, ClosePattern(t))
       /\ Utf8Len(doc) >= MIN_FILE_SIZE
       /\ Utf8Len(doc) <= MAX_FILE_SIZE

\* C9: every document with all required substrings and closing tags, a title
\* element with non-empty trimmed interior, balanced script and style tags
\* and a size within [200, 500000] bytes is accepted with no violation
C9_WellFormedAccepted ==
    (Validated /\ WellFormed(vhtml)) => (vresult.is_valid /\ vresult.errors = <<>>)

\* C10: accepted iff the violation list is empty, and the list holds nothing
\* but violations of the rules: a detected external reference adds no entry
C10_AcceptedIffNoViolation ==
    Validated =>
        /\ vresult.is_valid <=> (vresult.errors = <<>>)
        /\ Range(vresult.errors) \subseteq ViolatedRules(vhtml)
        /\ Len(vresult.errors) = Cardinality(ViolatedRules(vhtml))

\* a document with an external reference that is accepted
C10_Witness ==
    /\ Validated
    /\ vresult.warnings # <<>>
    /\ vresult.is_valid
    /\ vresult.errors = <<>>

(***************************************************************************)
(* Claims about the extractor, checked under SpecExtract.                  *)
(***************************************************************************)
Extracted == xresult # NotExtracted

\* the text holds a closed fenced block tagged htm or html
HasMarkupBlock(c) == c.fence \in {"html", "htm"}

\* C11: extraction priority: when the text holds a fenced block tagged as
\* markup, the trimmed interior of that block is returned, whatever stands
\* outside the fence; the other two rules return only when no such block exists
C11_ExtractionPriority ==
    Extracted =>
        /\ HasMarkupBlock(xcase) => (xresult.html = xcase.body /\ xresult.rule = "fence")
        /\ xresult.rule \in {"document", "lines"} => ~HasMarkupBlock(xcase)

\* a padded fenced block after a bare complete document: the interior wins
C11_Witness ==
    /\ Extracted
    /\ xcase.fence = "html"
    /\ xcase.before = "document"
    /\ xcase.pad > 0
    /\ xresult.html = xcase.body
    /\ xresult.html # xraw

\* a document-type declaration with a closing root tag somewhere after it
HasDocumentSpan(text) ==
    \E i, j \in DOMAIN text :
        /\ i < j
        /\ LowerText(text[i].s) = "<!doctype html>"
        /\ LowerText(text[j].s) = "</html>"

\* the units that start a document and have only blanks before them on
\* their line
DocumentLines(text) ==
    {i \in DOMAIN text :
        /\ StartsDocument(text[i].s)
        /\ \E k \in 1..i : /\ (k = 1 \/ EndsLine(text[k - 1].s))
                            /\ \A m \in k..(i - 1) : IsSpace(text[m].s)}

\* neither of the first two rules applies
FallsBack(c, text) == ~HasMarkupBlock(c) /\ ~HasDocumentSpan(text)

\* text without the blanks at its two ends
Trimmed(text) ==
    LET inner == {i \in DOMAIN text : ~IsSpace(text[i].s)}
    IN IF inner = {} THEN <<>> ELSE SubSeq(text, Min(inner), Max(inner))

\* C17 as stated: in the fallback the result runs from the first line that
\* starts a document to the end, trimmed, and without such a line it is the
\* raw text as it is, untrimmed
C17_FallbackAsIs ==
    (Extracted /\ FallsBack(xcase, xraw)) =>
        IF DocumentLines(xraw) # {}
        THEN xresult.html = Trimmed(SubSeq(xraw, Min(DocumentLines(xraw)), Len(xraw)))
        ELSE xresult.html = xraw

\* C17 amended: without such a line the result is the whole text trimmed
C17_FallbackTrimmed ==
    (Extracted /\ FallsBack(xcase, xraw)) =>
        /\ xresult.rule = "lines"
        /\ IF DocumentLines(xraw) # {}
           THEN xresult.html = Trimmed(SubSeq(xraw, Min(DocumentLines(xraw)), Len(xraw)))
           ELSE xresult.html = Trimmed(xraw)

\* a text with blanks at its ends and no line that starts a document: the
\* result is the trimmed text, not the text
C17_Witness ==
    /\ Extracted
    /\ FallsBack(xcase, xraw)
    /\ DocumentLines(xraw) = {}
    /\ xresult.html = Trimmed(xraw)
    /\ xresult.html # xraw
    /\ xresult.html # <<>>

(***************************************************************************)
(* Claims about the orchestrator, checked under Spec.                      *)
(***************************************************************************)
Finished == {"returned", "sleep", "exited"}
Persisting == {"mkdir", "write_html", "write_meta", "update_index", "commit"}
AfterTheLoop == Persisting \cup Finished \cup {"crashed"}

GenerationCalls == {k \in DOMAIN calls : calls[k].kind \in {"plan", "code"}}
Written == {i \in DOMAIN persisted : persisted[i].op = "write_html"}
AcceptedVerdicts == {k \in DOMAIN verdicts : verdicts[k].is_valid}

\* attempt a of this cycle failed: a request of it failed or its artifact
\* was rejected
AttemptFailed(a) ==
    \/ \E k \in GenerationCalls : calls[k].attempt = a /\ ~calls[k].ok
    \/ \E k \in DOMAIN verdicts : verdicts[k].attempt = a /\ ~verdicts[k].is_valid

\* C1: validation is a hard gate: a cycle makes a persistence call only after
\* validate_html accepted an artifact of the same cycle, it writes at most one
\* artifact, and the artifact written, and left in the store by a successful
\* write, is that accepted artifact
C1_ValidationGate ==
    /\ Cardinality(Written) <= 1
    /\ \A i \in DOMAIN persisted :
         \E k \in DOMAIN verdicts :
            /\ verdicts[k].is_valid
            /\ validate_html(verdicts[k].html).is_valid
            /\ verdicts[k].attempt = attempt_used
            /\ persisted[i].slug = idea.slug
            /\ persisted[i].op = "write_html" => persisted[i].html = verdicts[k].html
            /\ (persisted[i].op = "write_html" /\ persisted[i].ok)
                 => store[idea.slug].html = verdicts[k].html
    /\ \A g \in DOMAIN store :
         \/ store[g].html = store0[g].html
         \/ /\ g = idea.slug
            /\ Written # {}
            /\ store[g].html \in {html, <<>>}

\* a successful cycle that wrote the artifact of its second or third attempt
\* after a rejected one
C1_Witness ==
    /\ pc = "returned"
    /\ result = "True"
    /\ Written # {}
    /\ \E k \in DOMAIN verdicts : ~verdicts[k].is_valid
    /\ store[idea.slug].html = html

\* every attempt of the cycle failed and the loop is over
Exhausted ==
    /\ idea # NoIdea
    /\ pc \in AfterTheLoop
    /\ \A a \in 1..config.max_retries : AttemptFailed(a)

\* C2: when every one of the max_retries attempts failed, by rejection or
\* by a generation error (also for max_retries = 0), run_daily_cycle returns
\* False and makes no persistence call: the store is as the cycle found it
C2_ExhaustionPersistsNothing ==
    Exhausted =>
        /\ pc \in Finished
        /\ result = "False"
        /\ persisted = <<>>
        /\ store = store0

\* three attempts, one of them failed by an error and one by a rejection
C2_Witness ==
    /\ Exhausted
    /\ pc = "returned"
    /\ config.max_retries = 3
    /\ \E k \in GenerationCalls : ~calls[k].ok
    /\ \E k \in DOMAIN verdicts : ~verdicts[k].is_valid

\* C3: the first attempt that generates and validates is the accepted one:
\* attempt_used is its index, every earlier attempt failed, and no request
\* of a later attempt is ever made
C3_FirstSuccessWins ==
    /\ AcceptedVerdicts # {} =>
         /\ attempt_used = verdicts[Min(AcceptedVerdicts)].attempt
         /\ Cardinality(AcceptedVerdicts) = 1
    /\ attempt_used # 0 =>
         /\ verdicts # <<>>
         /\ verdicts[Len(verdicts)].is_valid
         /\ verdicts[Len(verdicts)].attempt = attempt_used
         /\ \A a \in 1..(attempt_used - 1) : AttemptFailed(a)
         /\ ~AttemptFailed(attempt_used)
         /\ \A k \in GenerationCalls : calls[k].attempt <= attempt_used
         /\ attempt = attempt_used
         /\ pc \in AfterTheLoop \cup {"after_loop"}

\* attempt 1 of 3 fails by a backend error, attempt 2 validates: success
\* with attempt_used = 2 and no request of attempt 3
C3_Witness ==
    /\ pc = "returned"
    /\ result = "True"
    /\ config.max_retries = 3
    /\ attempt_used = 2
    /\ \E k \in GenerationCalls : calls[k].attempt = 1 /\ ~calls[k].ok
    /\ \A k \in GenerationCalls : calls[k].attempt # 3

\* C4: an error of a generation phase never leaves run_daily_cycle: the
\* attempt counts as failed and the next request, if any, is phase one of
\* the next attempt; after the last attempt the cycle returns False; and
\* every phase-two request embeds the plan of phase one of its own attempt
C4_AttemptErrorsContained ==
    /\ \A k \in GenerationCalls :
         ~calls[k].ok =>
            /\ pc = "crashed" => persisted # <<>>
            /\ k < Len(calls) =>
                 /\ calls[k + 1].kind = "plan"
                 /\ calls[k + 1].attempt = calls[k].attempt + 1
            /\ k = Len(calls) =>
                 \/ pc = "loop"
                 \/ pc = "phase1" /\ attempt = calls[k].attempt + 1
                 \/ /\ calls[k].attempt = config.max_retries
                    /\ pc \in Finished \cup {"after_loop"}
                    /\ pc \in Finished => result = "False"
    /\ \A k \in GenerationCalls :
         calls[k].kind = "code" =>
            /\ k > 1
            /\ calls[k - 1].kind = "plan"
            /\ calls[k - 1].ok
            /\ calls[k - 1].attempt = calls[k].attempt
            /\ calls[k].plan = k - 1

\* phase two of attempt 1 failed and attempt 2 ran both of its phases
C4_Witness ==
    /\ \E k \in GenerationCalls :
         calls[k].kind = "code" /\ calls[k].attempt = 1 /\ ~calls[k].ok
    /\ \E k \in GenerationCalls :
         calls[k].kind = "code" /\ calls[k].attempt = 2 /\ calls[k].plan = k - 1

IdeaFailed == pc \notin {"main", "idea"} /\ idea = NoIdea

\* C5: one idea request per cycle; when generate_idea fails the cycle
\* returns False at once, starts no attempt and persists nothing
C5_IdeaNeverRetried ==
    /\ Cardinality({k \in DOMAIN calls : calls[k].kind = "idea"}) <= 1
    /\ \A k \in DOMAIN calls : calls[k].kind = "idea" => k = 1
    /\ IdeaFailed =>
         /\ pc \in Finished
         /\ result = "False"
         /\ Len(calls) = 1
         /\ attempt = 0
         /\ verdicts = <<>>
         /\ persisted = <<>>
         /\ store = store0

\* the second cycle ends at the duplicate check: the backend answered, no
\* idea was returned
C5_Witness ==
    /\ IdeaFailed
    /\ pc = "returned"
    /\ cycles = 2
    /\ calls[1].ok
    /\ result = "False"

C7_PersistenceFailureNotFatal ==
    (\E i \in DOMAIN persisted : ~persisted[i].ok) =>
        /\ pc \in Finished
        /\ result = "False"
        /\ ~config.once => exit_code = -1

(***************************************************************************)
(* Claims about the ideas and the store, checked under Spec.               *)
(***************************************************************************)
\* the artifacts of a store whose metadata can be read
Stored(st) == {g \in DOMAIN st : st[g].meta.readable}

\* two titles are equal when case is ignored
SameTitle(t, u) == LowerStr(t) = LowerStr(u)

\* the title is the title of an artifact of the store, ignoring case
TitleTaken(st, t) == \E g \in Stored(st) : SameTitle(st[g].meta.title, t)

\* C12: idea uniqueness: the idea a cycle works on never has the title,
\* ignoring case, of an artifact stored when the cycle asked for it; for an
\* answer with such a title generate_idea raises; and so no two stored
\* artifacts have the same title ignoring case
C12_IdeaUniqueness ==
    /\ idea # NoIdea => ~TitleTaken(store0, idea.title)
    /\ \A r \in IdeaResponses : TitleTaken(store, r.title) => generate_idea(store, r) = NoIdea
    /\ \A g, h \in Stored(store) :
         SameTitle(store[g].meta.title, store[h].meta.title) => g = h

\* "Tic Tac Toe" is stored and the backend answered the second cycle with
\* that title in some case: no idea was returned
C12_Witness ==
    /\ cycles = 2
    /\ pc = "returned"
    /\ idea = NoIdea
    /\ calls[1].ok
    /\ \E g \in Stored(store) :
         store[g].meta.title = <<"T", "i", "c", " ", "T", "a", "c", " ", "T", "o", "e">>
    /\ LowerStr(<<"T", "i", "c", " ", "T", "a", "c", " ", "T", "o", "e">>)
         \in _get_existing_titles(store)

(***************************************************************************)
(* Claims about the slug, checked under SpecSlug.                          *)
(***************************************************************************)
Normalized == sresult # NotNormalized

\* what becomes of one character of the backend's slug
SlugOf(c) ==
    IF c = " " THEN <<"-">>
    ELSE IF c = "-" \/ c \in Digits THEN <<c>>
    ELSE IF \E i \in DOMAIN UpperLetters : c \in {UpperLetters[i], LowerLetters[i]}
         THEN <<LowerLetters[CHOOSE i \in DOMAIN UpperLetters :
                               c \in {UpperLetters[i], LowerLetters[i]}]>>
    ELSE <<>>

RECURSIVE SlugOfAll(_)
SlugOfAll(str) == IF str = <<>> THEN <<>> ELSE SlugOf(Head(str)) \o SlugOfAll(Tail(str))

\* C13: the slug of a returned idea is the backend's slug lowercased, its
\* spaces turned into hyphens and every other character that is not
\* alphanumeric or a hyphen dropped: "My Cool App!!" gives "my-cool-app";
\* it holds only lowercase letters, digits and hyphens, and normalising it
\* again changes nothing
C13_SlugNormalization ==
    Normalized =>
        /\ sresult = SlugOfAll(sslug)
        /\ \A i \in DOMAIN sresult : sresult[i] \in Range(LowerLetters) \cup Digits \cup {"-"}
        /\ NormalizeSlug(sresult) = sresult
        /\ sslug = MyCoolApp =>
             sresult = <<"m", "y", "-", "c", "o", "o", "l", "-", "a", "p", "p">>

\* the example of the claim
C13_Witness ==
    /\ Normalized
    /\ sslug = MyCoolApp
    /\ sresult = <<"m", "y", "-", "c", "o", "o", "l", "-", "a", "p", "p">>

(***************************************************************************)
(* Claims about the process, checked under Spec.                           *)
(***************************************************************************)
\* C14: with --once the process runs one cycle and exits, with status 0
\* exactly when the cycle returned True; without it the process runs a
\* first cycle and then the scheduled ones and never exits on its own
C14_CliModes ==
    /\ pc = "main" => cycles = 0
    /\ config.once =>
         /\ cycles <= 1
         /\ exit_code # -1 =>
              /\ cycles = 1
              /\ exit_code \in {0, 1}
              /\ exit_code = 0 <=> result = "True"
    /\ ~config.once =>
         /\ exit_code = -1
         /\ pc \notin {"exited", "crashed"}

(***************************************************************************)
(* Claims about the steps of an attempt, checked under Spec.               *)
(***************************************************************************)
PlanCalls(a) == {k \in GenerationCalls : calls[k].kind = "plan" /\ calls[k].attempt = a}
CodeCalls(a) == {k \in GenerationCalls : calls[k].kind = "code" /\ calls[k].attempt = a}
Verdicts(a) == {i \in DOMAIN verdicts : verdicts[i].attempt = a}

\* C15: an attempt runs phase one, phase two with the plan phase one of
\* this attempt returned, extraction and validation, in this order: no
\* phase two without an answer to phase one, no extraction or validation
\* without an answer to phase two, and no phase is requested twice
C15_AttemptOrder ==
    /\ \A a \in 1..attempt :
         /\ Cardinality(PlanCalls(a)) <= 1
         /\ Cardinality(CodeCalls(a)) <= 1
         /\ Cardinality(Verdicts(a)) <= 1
         /\ \A k \in CodeCalls(a) :
              \E j \in PlanCalls(a) : j = k - 1 /\ calls[j].ok /\ calls[k].plan = j
         /\ \A i \in Verdicts(a) :
              \E k \in CodeCalls(a) :
                 /\ calls[k].ok
                 /\ verdicts[i].html = _extract_html(calls[k].raw)
                 /\ Cardinality({j \in DOMAIN verdicts : j < i})
                      = Cardinality({j \in GenerationCalls :
                                       j < k /\ calls[j].kind = "code" /\ calls[j].ok})
    /\ pc = "phase2" => \E j \in PlanCalls(attempt) : j = Len(calls) /\ calls[j].ok
    /\ pc = "validate" =>
         /\ \E k \in CodeCalls(attempt) :
               k = Len(calls) /\ calls[k].ok /\ html = _extract_html(calls[k].raw)
         /\ Verdicts(attempt) = {}

\* phase one of attempt 1 failed and phase two of attempt 2 failed: no phase
\* two in attempt 1, no verdict before attempt 3, whose artifact is validated
C15_Witness ==
    /\ pc = "after_loop"
    /\ attempt = 3
    /\ \E j \in PlanCalls(1) : ~calls[j].ok
    /\ CodeCalls(1) = {}
    /\ \E k \in CodeCalls(2) : ~calls[k].ok
    /\ Verdicts(1) \cup Verdicts(2) = {}
    /\ Verdicts(3) # {}
    /\ Len(calls) = 6

(***************************************************************************)
(* Claims about colliding slugs, checked under Spec.                       *)
(***************************************************************************)
\* the answer has a new title and the slug of a stored artifact
Collides(st, r) == ~TitleTaken(st, r.title) /\ NormalizeSlug(r.slug) \in Stored(st)

\* C16: the duplicate check looks at the title only: an answer with a new
\* title and the slug of a stored artifact is returned as an idea, and the
\* successful cycle for it puts its artifact and metadata in the place of
\* the stored ones
C16_SlugCollisionOverwrites ==
    /\ \A r \in IdeaResponses :
         Collides(store, r) =>
            generate_idea(store, r) = [title |-> r.title, slug |-> NormalizeSlug(r.slug)]
    /\ (pc \in Finished /\ result = "True" /\ idea.slug \in Stored(store0)) =>
         /\ ~SameTitle(store0[idea.slug].meta.title, idea.title)
         /\ store[idea.slug].html = html
         /\ store[idea.slug].meta = Metadata
         /\ store[idea.slug].meta.title = idea.title
         /\ Stored(store) = Stored(store0)
         /\ \A g \in DOMAIN store : g # idea.slug => store[g] = store0[g]

\* the second cycle succeeded for "Tic-Tac-Toe" with the slug of the stored
\* "Tic Tac Toe", whose metadata is gone
C16_Witness ==
    /\ pc = "returned"
    /\ result = "True"
    /\ cycles = 2
    /\ idea.slug \in Stored(store0)
    /\ store0[idea.slug].meta.title # idea.title
    /\ store[idea.slug].meta.title = idea.title
    /\ Cardinality(Stored(store)) = 1

(***************************************************************************)
(* Claims about the generation client, checked under SpecClient.           *)
(***************************************************************************)
Answered == qpc = "done"

\* the backend answered without success, or the transport failed
BackendFailed == qbackend.kind = "error status" \/ qbackend.kind \in TransportFailures

C19_VerdictOfArtifactOnly ==
    \A i \in DOMAIN verdicts :
      LET violated == ViolatedRules(verdicts[i].html)
      IN
        /\ Range(verdicts[i].errors) = violated
        /\ Len(verdicts[i].errors) = Cardinality(violated)
        /\ verdicts[i].is_valid <=> violated = {}
        /\ \A j \in DOMAIN verdicts :
             verdicts[j].html = verdicts[i].html =>
                /\ verdicts[j].errors = verdicts[i].errors
                /\ verdicts[j].is_valid = verdicts[i].is_valid

\* the same artifact rejected twice with the same list, then another one
\* accepted with an empty list
C19_Witness ==
    /\ Len(verdicts) = 3
    /\ verdicts[1].html = verdicts[2].html
    /\ verdicts[1].errors = verdicts[2].errors
    /\ verdicts[1].errors # <<>>
    /\ verdicts[3].is_valid
    /\ verdicts[3].errors = <<>>

(***************************************************************************)
(* Claims about the stored metadata, checked under Spec.                   *)
(***************************************************************************)
MetadataWritten == \E i \in DOMAIN persisted : persisted[i].op = "write_meta" /\ persisted[i].ok

\* C20: the metadata a cycle stores describes the accepted attempt n, the
\* one whose artifact was written: its index, 1 <= n <= max_retries, the
\* temperature base + (n - 1) * increment both requests of n were sent
\* with, the durations of the two requests of n and the size generate_code
\* measured for the artifact of n
C20_ProvenanceConsistency ==
    MetadataWritten =>
        LET m == store[idea.slug].meta
            k == Len(verdicts)
            n == verdicts[k].attempt
        IN /\ verdicts[k].is_valid
           /\ \A j \in 1..(k - 1) : ~verdicts[j].is_valid /\ verdicts[j].attempt < n
           /\ store[idea.slug].html = verdicts[k].html
           /\ m.attempt = n
           /\ 1 <= n /\ n <= config.max_retries
           /\ m.temperature = config.temperature + (n - 1) * config.temperature_increment
           /\ \A c \in PlanCalls(n) \cup CodeCalls(n) :
                calls[c].ok /\ calls[c].temperature = m.temperature
           /\ m.phase1_seconds = Seconds("plan", n)
           /\ m.phase2_seconds = Seconds("code", n)
           /\ m.total_seconds = Seconds("plan", n) + Seconds("code", n)
           /\ m.output_bytes = verdicts[k].benchmark.output_bytes
           /\ m.output_bytes = CharLen(verdicts[k].html)
           /\ m.title = idea.title

\* attempt 1 rejected, attempt 2 failed, attempt 3 accepted and stored with
\* index 3, temperature 0.90 and the durations of attempt 3
C20_Witness ==
    /\ pc = "returned"
    /\ result = "True"
    /\ MetadataWritten
    /\ Verdicts(1) # {}
    /\ Verdicts(2) = {}
    /\ store[idea.slug].meta.attempt = 3
    /\ store[idea.slug].meta.temperature = 90
    /\ store[idea.slug].meta.phase1_seconds = 5
    /\ store[idea.slug].meta.output_bytes # verdicts[1].benchmark.output_bytes

(***************************************************************************)
(* Claims about the length of a cycle, checked under SpecFair.             *)
(***************************************************************************)
\* an artifact of this cycle was accepted and the loop is over
Accepted == pc \in AfterTheLoop /\ AcceptedVerdicts # {}

\* the outcomes of the generation part that hold of the cycle
Outcomes ==
    {o \in {"idea failure", "Accepted", "Exhausted"} :
        \/ o = "idea failure" /\ IdeaFailed
        \/ o = "Accepted" /\ Accepted
        \/ o = "Exhausted" /\ Exhausted}

\* the attempts of this cycle that sent a request
AttemptsStarted == {calls[k].attempt : k \in GenerationCalls}

\* the cycle starts at most max_retries attempts, none beyond max_retries,
\* and sends at most one idea request and 2 * max_retries generation requests
BoundedRequests ==
    /\ attempt <= config.max_retries
    /\ AttemptsStarted \subseteq 1..config.max_retries
    /\ Cardinality({k \in DOMAIN calls : calls[k].kind = "idea"}) <= 1
    /\ Cardinality(GenerationCalls) <= 2 * config.max_retries

\* once the loop of a cycle is over the cycle has exactly one outcome
OneOutcome == pc \in AfterTheLoop => Cardinality(Outcomes) = 1

\* C21: when every backend request returns or fails, every cycle that
\* starts gets past its attempt loop, then has exactly one of the outcomes
\* idea failure, Accepted and Exhausted, and has started at most
\* max_retries attempts with at most one idea request and at most
\* 2 * max_retries code-generation requests
C21_BoundedTermination ==
    /\ [](BoundedRequests /\ OneOutcome)
    /\ (pc = "idea") ~> (pc \in AfterTheLoop)

\* an exhausted cycle that used the whole budget of the largest
\* configuration: every attempt sent both requests and was rejected
C21_Witness ==
    /\ pc = "returned"
    /\ Outcomes = {"Exhausted"}
    /\ config.max_retries = MaxRetries
    /\ config.max_retries > 1
    /\ attempt = config.max_retries
    /\ Cardinality(GenerationCalls) = 2 * config.max_retries
    /\ Cardinality(AttemptsStarted) = config.max_retries

(***************************************************************************)
(* Claims about what a failed cycle leaves in the store, checked under     *)
(* Spec.                                                                   *)
(***************************************************************************)
\* the persistence calls of this cycle that failed in update_index or in
\* commit_app
FailedCalls ==
    {i \in DOMAIN persisted :
        persisted[i].op \in {"update_index", "commit"} /\ ~persisted[i].ok}

\* this cycle reported failure because update_index or commit_app failed
FailedAfterWriting == pc \in Finished /\ result = "False" /\ FailedCalls # {}

\* generate_idea raises for every answer with this title, ignoring case
RejectedAsDuplicate(st, t) ==
    \A r \in IdeaResponses : SameTitle(r.title, t) => generate_idea(st, r) = NoIdea

\* a commit was made for this artifact
Committed(g, t) == \E i \in DOMAIN commits : commits[i] = [slug |-> g, title |-> t]

\* the artifacts this cycle found in the store that an earlier cycle wrote
\* without a commit: the store starts empty and a successful cycle commits,
\* so that cycle reported failure from update_index or commit_app
LeftByFailedCycles ==
    {g \in Stored(store0) : ~Committed(g, store0[g].meta.title)}

\* the cycle that reported that failure has written its accepted artifact
\* and its metadata and they are in the store, its title is in the titles
\* the next cycle reads, an answer with that title is rejected, and the idea
\* of a cycle is never the title an earlier failed cycle left in the store
KeptAfterFailure ==
    /\ FailedAfterWriting =>
         /\ \E i, j \in DOMAIN persisted :
               /\ persisted[i] = Persist("write_html", idea.slug, html, TRUE)
               /\ persisted[j] = Persist("write_meta", idea.slug, None, TRUE)
               /\ i < j
               /\ \A k \in FailedCalls : j < k
         /\ \E k \in AcceptedVerdicts : verdicts[k].html = html
         /\ store[idea.slug].html = html
         /\ store[idea.slug].meta = Metadata
         /\ LowerStr(idea.title) \in _get_existing_titles(store)
         /\ RejectedAsDuplicate(store, idea.title)
    /\ \A g \in LeftByFailedCycles :
         idea # NoIdea => ~SameTitle(idea.title, store0[g].meta.title)

\* this cycle has written metadata with another title to the directory g
Overwritten(g) ==
    /\ idea.slug = g
    /\ ~SameTitle(idea.title, store0[g].meta.title)
    /\ \E i \in DOMAIN persisted : persisted[i].op = "write_meta"

\* C22 as stated: the artifact and metadata of a cycle that failed in
\* update_index or commit_app stay in the store, and an idea with its title
\* is rejected as a duplicate in the next and in every later cycle
C22_RejectedInLaterCycles ==
    /\ KeptAfterFailure
    /\ \A g \in LeftByFailedCycles : RejectedAsDuplicate(store, store0[g].meta.title)

\* C22 amended: an idea with its title is rejected in the next cycle, and
\* later for as long as no cycle with another title and the same slug has
\* written its metadata over the failed cycle's
C22_RejectedUntilOverwritten ==
    /\ KeptAfterFailure
    /\ \A g \in LeftByFailedCycles :
         RejectedAsDuplicate(store, store0[g].meta.title) \/ Overwritten(g)

\* the first cycle wrote "Tic Tac Toe" and failed in commit_app; the second
\* cycle is answered "TIC TAC TOE" and returns without an idea
C22_Witness ==
    /\ cycles = 2
    /\ pc = "returned"
    /\ idea = NoIdea
    /\ calls[1].ok
    /\ commits = <<>>
    /\ index.gallery # {}
    /\ \E g \in LeftByFailedCycles :
         /\ store[g].html = PageA
         /\ store[g].meta.title = <<"T", "i", "c", " ", "T", "a", "c", " ", "T", "o", "e">>
         /\ RejectedAsDuplicate(store, store[g].meta.title)

====
